---- MODULE Spec2Model ----
(***************************************************************************)
(* Model of package backoff (crgimenes/backoff): one Backoff instance      *)
(* shared by several concurrent callers of Next and Reset.                 *)
(*                                                                         *)
(* time.Duration is a signed 64-bit integer.  The model keeps the two's    *)
(* complement arithmetic but narrows the range to                          *)
(* MinDuration..MaxDuration so that the explicit-state search can reach    *)
(* the ends of the range.  factor is a float64; it is modelled by a        *)
(* rational <<numerator, denominator>> with a power-of-two denominator.    *)
(* The float64 of the model keeps the rounding to a significand of         *)
(* MantissaBits bits (ties to even), narrower than the integer as in the   *)
(* program, and the conversion back to time.Duration truncates toward zero *)
(* and has an implementation-dependent result outside the range.  NaN and  *)
(* infinite factors are not modelled.                                      *)
(*                                                                         *)
(* Jittered values come from the top-level functions of math/rand, whose   *)
(* source is global to the process: the model counts the draws made from   *)
(* it and leaves the drawn values nondeterministic.  A second instance,    *)
(* whose calls are atomic, shares that source in PairSpec.                 *)
(***************************************************************************)
EXTENDS Integers, Sequences, FiniteSets, Bags, TLC

\* ------------------------------------------------------------ bounds

\* Largest time.Duration of the model (math.MaxInt64 in the program).
MaxDuration == 7

\* Bits of the significand of the model's float64 (53 in the program); as in
\* the program it is narrower than the integer, so the largest durations
\* are not all representable.
MantissaBits == 2

\* Number of goroutines that share the instance.
NumCallers == 2

\* Total number of Next/Reset calls started in one behaviour.
MaxCalls == 4

\* ------------------------------------------------------------ value sets

MinDuration == -MaxDuration - 1

Duration == MinDuration..MaxDuration

Callers == 1..NumCallers

\* Arguments of New tried by the model: negative, zero and positive initial,
\* an initial the float64 cannot represent, initial above and below max,
\* factors below, at and above 1 (each <<numerator, denominator>>).
Initials == {-1, 0, 1, 2, 5}

Factors == {<<-1, 1>>, <<0, 1>>, <<1, 2>>, <<1, 1>>, <<3, 2>>, <<2, 1>>}

Maxs == {-1, 1, 4, 7}

\* What a float64 -> int64 conversion yields when the value is outside the
\* int64 range (the Go specification leaves it to the implementation):
\* "indefinite" is the amd64 result (the minimum int64 for every out-of-range
\* value), "saturating" the arm64 result (the nearest end of the range).
Conversions == {"indefinite", "saturating"}

\* ------------------------------------------------------------ arithmetic

RECURSIVE Pow(_, _)
Pow(b, e) == IF e = 0 THEN 1 ELSE b * Pow(b, e - 1)

\* The unit in the last place of a significand of MantissaBits bits for the
\* magnitude a: the least power of two u with a < 2^MantissaBits * u.
RECURSIVE Ulp(_, _)
Ulp(a, u) == IF a < Pow(2, MantissaBits) * u THEN u ELSE Ulp(a, 2 * u)

\* The float64 nearest to n: n rounded to MantissaBits significant bits, ties
\* to even.  A value n/d with d a power of two rounds to Float64(n)/d.
Float64(n) ==
  LET a == IF n >= 0 THEN n ELSE -n
      u == Ulp(a, 1)
      q == a \div u
      r == a % u
      up == 2 * r > u \/ (2 * r = u /\ q % 2 = 1)
      m == (IF up THEN q + 1 ELSE q) * u
  IN  IF n >= 0 THEN m ELSE -m

\* n/d truncated toward zero (d > 0): the conversion of an in-range float64
\* to an integer type drops the fraction.
Trunc(n, d) == IF n >= 0 THEN n \div d ELSE -((-n) \div d)

\* float64(c) * f as a float64, truncated toward zero; not yet narrowed to
\* the range of time.Duration.
Product(c, f) == Trunc(Float64(Float64(c) * f[1]), f[2])

\* time.Duration(x) for a float64 whose truncation is x.
ToDuration(x, cv) ==
  IF x >= MinDuration /\ x <= MaxDuration THEN x
  ELSE IF cv = "indefinite" THEN MinDuration
  ELSE IF x > 0 THEN MaxDuration ELSE MinDuration

\* Two's complement wrap-around of integer arithmetic on time.Duration.
Wrap(x) == ((x - MinDuration) % (MaxDuration - MinDuration + 1)) + MinDuration

\* Faulty variant of Grow: the clamp to max is missing.
GrowNoClamp(c, f, m, cv) == ToDuration(Product(c, f), cv)

\* The else branch of Next: next := Duration(float64(current)*factor),
\* then the clamp to max.
Grow(c, f, m, cv) ==
  LET next == ToDuration(Product(c, f), cv)
  IN  IF next > m THEN m ELSE next

\* The argument of rand.Int63n in Next: int64(b.current + 1).
JitterArg(c) == Wrap(c + 1)

\* Faulty variant of Int63n: the draw includes n.
Int63nInclusive(n) == 0..n

\* rand.Int63n(n) returns a value of [0, n) and panics when n <= 0.
Int63n(n) == 0..(n - 1)

Int63nPanics(n) == n <= 0

\* ------------------------------------------------------------ state

VARIABLES
  initial,      \* Backoff.initial
  factor,       \* Backoff.factor
  max,          \* Backoff.max
  withJitter,   \* Backoff.withJitter
  current,      \* Backoff.current
  initialized,  \* Backoff.initialized
  mu,           \* Backoff.mu: TRUE when locked
  conv,         \* the build's out-of-range float64 -> int64 conversion
  pc,           \* each caller's position in Next or Reset
  local,        \* each caller's locals in Next: the branch taken and `next`
  log,          \* completed calls, in the order they completed
  args,         \* the arguments New was called with
  budget,       \* the number of calls the callers make in this behaviour
  source,       \* the source of math/rand's top-level functions: the
                \* number of values drawn from it so far
  other         \* a second Backoff: its fields and its completed calls

vars == <<initial, factor, max, withJitter, current, initialized, mu, conv,
          pc, local, log, args, budget, source, other>>

\* The fields New sets from its arguments.
params == <<initial, factor, max, withJitter>>

\* What no method of Backoff can reach.
env == <<args, budget, conv, other>>

\* The fields of the instance other than the mutex, as one record.
Fields ==
  [initial |-> initial, factor |-> factor, max |-> max,
   withJitter |-> withJitter, current |-> current,
   initialized |-> initialized]

\* The fields after a step of a method are those of g.
SetFields(g) ==
  /\ initial' = g.initial
  /\ factor' = g.factor
  /\ max' = g.max
  /\ withJitter' = g.withJitter
  /\ current' = g.current
  /\ initialized' = g.initialized

NoLocal == [first |-> FALSE, next |-> 0]

\* ------------------------------------------------------------ construction

\* The option lists New is called with: none, WithJitter(true),
\* WithJitter(false).
Options == {<<>>, <<TRUE>>, <<FALSE>>}

\* Faulty variant of WithJitter: the option sets the opposite.
WithJitterInverted(enabled) == ~enabled

\* WithJitter(enabled): the option sets b.withJitter = enabled.
WithJitter(enabled) == enabled

\* for _, opt := range opts { opt(b) }, on the field withJitter.
RECURSIVE ApplyOptions(_, _)
ApplyOptions(j, opts) ==
  IF opts = <<>> THEN j
  ELSE ApplyOptions(WithJitter(Head(opts)), Tail(opts))

\* Faulty variant of New: jitter is off unless an option sets it.
NewJitterOff(i, f, m, opts) ==
  [initial |-> i, factor |-> f, max |-> m,
   withJitter |-> ApplyOptions(FALSE, opts),
   current |-> 0, initialized |-> FALSE]

\* New(initial, factor, max, opts...): withJitter is true unless an option
\* sets it; current and initialized keep their zero values.
New(i, f, m, opts) ==
  [initial |-> i, factor |-> f, max |-> m,
   withJitter |-> ApplyOptions(TRUE, opts),
   current |-> 0, initialized |-> FALSE]

\* The state after New, before any call.
Constructed(i, f, m, o) ==
  /\ args = [initial |-> i, factor |-> f, max |-> m, opts |-> o]
  /\ initial = New(i, f, m, o).initial
  /\ factor = New(i, f, m, o).factor
  /\ max = New(i, f, m, o).max
  /\ withJitter = New(i, f, m, o).withJitter
  /\ current = New(i, f, m, o).current
  /\ initialized = New(i, f, m, o).initialized
  /\ mu = FALSE
  /\ conv \in Conversions
  /\ pc = [p \in Callers |-> "idle"]
  /\ local = [p \in Callers |-> NoLocal]
  /\ log = <<>>
  /\ source = 0

\* A second instance, as New(i, f, m, o) returns it, with no call made.
Other(i, f, m, o) == [b |-> New(i, f, m, o), log |-> <<>>]

\* The second instance of the behaviours in which no caller uses it.
Unused == Other(0, <<1, 1>>, 0, <<>>)

Construct ==
  \E i \in Initials, f \in Factors, m \in Maxs, o \in Options :
    Constructed(i, f, m, o)

\* WithJitter(true) sets what New has already set: the behaviours of the
\* methods are explored for no option and for WithJitter(false).
Init ==
  /\ Construct
  /\ args.opts \in {<<>>, <<FALSE>>}
  /\ budget = MaxCalls
  /\ other = Unused

\* ------------------------------------------------------------ sync.Mutex

\* Faulty variant of CanLock: Lock does not wait.
CanLockAlways(m) == TRUE

\* Lock can be taken only when the mutex is unlocked.
CanLock(m) == ~m

\* Faulty variant of Unlock: the mutex stays as it is.
UnlockMissing(m) == m

\* Unlock leaves the mutex unlocked.
Unlock(m) == FALSE

\* ------------------------------------------------------------ calls

Started == Len(log) + Cardinality({p \in Callers : pc[p] # "idle"})

\* A caller starts a call of Next.
CallNext(p) ==
  /\ pc[p] = "idle"
  /\ Started < budget
  /\ pc' = [pc EXCEPT ![p] = "next_lock"]
  /\ UNCHANGED <<env, source, params, current, initialized, mu, local, log>>

\* A caller starts a call of Reset.
CallReset(p) ==
  /\ pc[p] = "idle"
  /\ Started < budget
  /\ pc' = [pc EXCEPT ![p] = "reset_lock"]
  /\ UNCHANGED <<env, source, params, current, initialized, mu, local, log>>

\* Next: b.mu.Lock()
NextLock(p) ==
  /\ pc[p] = "next_lock"
  /\ CanLock(mu)
  /\ mu' = TRUE
  /\ pc' = [pc EXCEPT ![p] = "next_check"]
  /\ UNCHANGED <<env, source, params, current, initialized, local, log>>

\* The branch Next takes on the fields b and the value it is about to store
\* in b.current: b.initial, or the clamped product.
NextLocals(b, cv) ==
  IF ~b.initialized
    THEN [first |-> TRUE, next |-> b.initial]
    ELSE [first |-> FALSE, next |-> Grow(b.current, b.factor, b.max, cv)]

\* Next: the test of b.initialized and, in the else branch, the computation
\* of the local `next` from b.current.
NextCheck(p) ==
  /\ pc[p] = "next_check"
  /\ local' = [local EXCEPT ![p] = NextLocals(Fields, conv)]
  /\ pc' = [pc EXCEPT ![p] = "next_store"]
  /\ UNCHANGED <<env, source, params, current, initialized, mu, log>>

\* Faulty variant of NextStores: with jitter enabled a draw (here 0) is
\* stored in b.current.
NextStoresDraw(b, loc) ==
  [b EXCEPT !.current = IF b.withJitter THEN 0 ELSE loc.next,
            !.initialized = IF loc.first THEN TRUE ELSE @]

\* The fields after the stores of the branch Next took: b.current =
\* b.initial and b.initialized = true, or b.current = next.
NextStores(b, loc) ==
  [b EXCEPT !.current = loc.next,
            !.initialized = IF loc.first THEN TRUE ELSE @]

\* Next: the stores of the branch taken.
NextStore(p) ==
  /\ pc[p] = "next_store"
  /\ SetFields(NextStores(Fields, local[p]))
  /\ pc' = [pc EXCEPT ![p] = "next_return"]
  /\ UNCHANGED <<env, source, mu, local, log>>

\* Faulty variant of Consume: a draw leaves the source as it was.
ConsumeNothing(s) == s

\* The source of math/rand's top-level functions after a draw.  The source
\* belongs to the package math/rand, not to a Backoff: every Backoff of the
\* process draws from it (and rand.Seed sets it for all of them).
Consume(s) == s + 1

\* rand.Int63n panics in the return statement of Next on the fields b.
Panics(b) == b.withJitter /\ Int63nPanics(JitterArg(b.current))

\* The values the return statement of Next can yield on the fields b.
Returns(b) ==
  IF b.withJitter THEN Int63n(JitterArg(b.current)) ELSE {b.current}

\* The source after the return statement of Next on the fields b: only a
\* jittered Next draws.
Drawn(b, s) == IF b.withJitter THEN Consume(s) ELSE s

\* Next: the return value (a draw of rand.Int63n with jitter, b.current
\* without), then the deferred b.mu.Unlock().
NextReturn(p) ==
  /\ pc[p] = "next_return"
  /\ ~Panics(Fields)
  /\ \E r \in Returns(Fields) :
       log' = Append(log, [op |-> "Next", val |-> r, first |-> local[p].first])
  /\ source' = Drawn(Fields, source)
  /\ mu' = Unlock(mu)
  /\ pc' = [pc EXCEPT ![p] = "idle"]
  /\ local' = [local EXCEPT ![p] = NoLocal]
  /\ UNCHANGED <<env, params, current, initialized>>

\* Next: rand.Int63n panics on an argument <= 0; the deferred b.mu.Unlock()
\* runs while the panic unwinds, and the call returns no value.
NextPanic(p) ==
  /\ pc[p] = "next_return"
  /\ Panics(Fields)
  /\ log' = Append(log, [op |-> "Panic", val |-> 0, first |-> local[p].first])
  /\ mu' = Unlock(mu)
  /\ pc' = [pc EXCEPT ![p] = "idle"]
  /\ local' = [local EXCEPT ![p] = NoLocal]
  /\ UNCHANGED <<env, source, params, current, initialized>>

\* Reset: b.mu.Lock()
ResetLock(p) ==
  /\ pc[p] = "reset_lock"
  /\ CanLock(mu)
  /\ mu' = TRUE
  /\ pc' = [pc EXCEPT ![p] = "reset_store"]
  /\ UNCHANGED <<env, source, params, current, initialized, local, log>>

\* Faulty variant of ResetInitialized: Reset leaves b.initialized alone.
ResetKeepsInitialized(i) == i

\* The value Reset stores in b.initialized.
ResetInitialized(i) == FALSE

\* Faulty variant of ResetStores: Reset assigns a zero Backoff.
ResetZeroesStruct(b) ==
  [initial |-> 0, factor |-> <<0, 1>>, max |-> 0, withJitter |-> FALSE,
   current |-> 0, initialized |-> FALSE]

\* Faulty variant of ResetStores: Reset also clears b.current.
ResetZeroesCurrent(b) ==
  [b EXCEPT !.initialized = ResetInitialized(@), !.current = 0]

\* The fields after the store of Reset.
ResetStores(b) == [b EXCEPT !.initialized = ResetInitialized(@)]

\* Reset: b.initialized = false, then the deferred b.mu.Unlock().
ResetStore(p) ==
  /\ pc[p] = "reset_store"
  /\ SetFields(ResetStores(Fields))
  /\ log' = Append(log, [op |-> "Reset", val |-> 0, first |-> FALSE])
  /\ mu' = Unlock(mu)
  /\ pc' = [pc EXCEPT ![p] = "idle"]
  /\ UNCHANGED <<env, source, local>>

Next ==
  \E p \in Callers :
    \/ CallNext(p)
    \/ CallReset(p)
    \/ NextLock(p)
    \/ NextCheck(p)
    \/ NextStore(p)
    \/ NextReturn(p)
    \/ NextPanic(p)
    \/ ResetLock(p)
    \/ ResetStore(p)

Spec == Init /\ [][Next]_vars

\* A goroutine that is running keeps running (weak fairness of the steps made
\* while holding the mutex), and a goroutine blocked in Lock gets the mutex
\* if it is unlocked again and again (sync.Mutex hands the mutex to a waiter
\* that has waited long: strong fairness of the lock steps).  A caller need
\* not start another call.
Fairness ==
  \A p \in Callers :
    /\ WF_vars(NextCheck(p) \/ NextStore(p) \/ NextReturn(p) \/ NextPanic(p)
                 \/ ResetStore(p))
    /\ SF_vars(NextLock(p) \/ ResetLock(p))

\* Whether a call completes does not depend on the numbers, only on whether
\* the jitter draw panics: the liveness check keeps the arguments whose
\* draws return (initial = 1) and those whose draws panic (initial = -1).
FairInit ==
  /\ Init
  /\ initial \in {-1, 1}
  /\ factor = <<2, 1>>
  /\ max = 4
  /\ conv = "indefinite"

FairSpec == FairInit /\ [][Next]_vars /\ Fairness

\* Construction with every argument and every option list, followed by one
\* call.
ConstructInit ==
  /\ Construct
  /\ budget = 1
  /\ other = Unused

ConstructSpec == ConstructInit /\ [][Next]_vars

\* The instance of the README's "Reset Functionality" example, in units of
\* 100ms, with room for its five calls: backoff.New(100ms, 2.0, 1s), the
\* maximum above the 400ms the example reaches.  The same instance with
\* WithJitter(false), and with a negative initial, are explored beside it.
ReadmeInit ==
  /\ \E i \in {-1, 1}, o \in {<<>>, <<FALSE>>} : Constructed(i, <<2, 1>>, 6, o)
  /\ budget = MaxCalls + 1
  /\ other = Unused

ReadmeSpec == ReadmeInit /\ [][Next]_vars

\* A call of Next on the second instance, from Lock to Unlock: its own
\* mutex and fields, the shared source of math/rand.
OtherNext ==
  /\ Len(other.log) < budget
  /\ LET loc == NextLocals(other.b, conv)
         b == NextStores(other.b, loc)
     IN  IF Panics(b)
           THEN /\ other' = [b |-> b,
                             log |-> Append(other.log,
                                       [op |-> "Panic", val |-> 0,
                                        first |-> loc.first])]
                /\ source' = source
           ELSE /\ \E r \in Returns(b) :
                     other' = [b |-> b,
                               log |-> Append(other.log,
                                         [op |-> "Next", val |-> r,
                                          first |-> loc.first])]
                /\ source' = Drawn(b, source)
  /\ UNCHANGED <<args, budget, conv, params, current, initialized, mu, pc,
                 local, log>>

\* A call of Reset on the second instance, from Lock to Unlock.
OtherReset ==
  /\ Len(other.log) < budget
  /\ other' = [b |-> ResetStores(other.b),
               log |-> Append(other.log,
                         [op |-> "Reset", val |-> 0, first |-> FALSE])]
  /\ UNCHANGED <<args, budget, conv, source, params, current, initialized,
                 mu, pc, local, log>>

\* Two instances in one process: the callers' calls on the first, and calls
\* on the second in between.
PairNext ==
  \/ Next
  \/ OtherNext
  \/ OtherReset

\* Both instances grow by 2.0 up to a maximum; each has jitter enabled or
\* disabled, and the first starts from 1 or from -1 (where its draws
\* panic).
PairInit ==
  /\ \E i \in {-1, 1}, o \in {<<>>, <<FALSE>>} : Constructed(i, <<2, 1>>, 4, o)
  /\ \E o \in {<<>>, <<FALSE>>} : other = Other(1, <<2, 1>>, 4, o)
  /\ budget = 2

PairSpec == PairInit /\ [][PairNext]_vars

\* ------------------------------------------------------------ sequential reference

\* The fields (current, initialized) of an instance with the same arguments
\* and jitter disabled after the calls of l made one after the other by a
\* single caller: every Next of l, returned or panicked, is an advance.
RECURSIVE Replay(_)
Replay(l) ==
  IF l = <<>> THEN [current |-> 0, initialized |-> FALSE]
  ELSE LET s == Replay(SubSeq(l, 1, Len(l) - 1))
           e == l[Len(l)]
       IN  IF e.op = "Reset" THEN [s EXCEPT !.initialized = FALSE]
           ELSE IF ~s.initialized
             THEN [current |-> initial, initialized |-> TRUE]
             ELSE [current |-> Grow(s.current, factor, max, conv),
                   initialized |-> TRUE]

\* What the n-th call of l returns on that instance (Next returns b.current
\* when jitter is disabled).
Unjittered(l, n) == Replay(SubSeq(l, 1, n)).current

\* The k-th value a single caller gets from a fresh instance with jitter
\* disabled and no Reset.
FreshValue(k) ==
  Replay([i \in 1..k |-> [op |-> "Next", val |-> 0, first |-> FALSE]]).current

\* ------------------------------------------------------------ vocabulary of the claims

IsAdvance(e) == e.op \in {"Next", "Panic"}

NoReset == \A k \in 1..Len(log) : log[k].op # "Reset"

FactorAtLeastOne == factor[1] >= factor[2]

\* initial * factor^(k-1) exceeds max (in exact arithmetic).
IdealExceedsMax(k) ==
  initial * Pow(factor[1], k - 1) > max * Pow(factor[2], k - 1)

\* v = initial * factor^(k-1) (in exact arithmetic).
IsIdeal(v, k) == v * Pow(factor[2], k - 1) = initial * Pow(factor[1], k - 1)

\* The number of advances of log[1..k] since the last Reset before k
\* (log[k] itself included when it is an advance).
RECURSIVE SinceReset(_)
SinceReset(k) ==
  IF k = 0 \/ log[k].op = "Reset" THEN 0
  ELSE SinceReset(k - 1) + 1

\* log[k] is the first advance after construction or after a Reset.
IsFirstAdvance(k) == IsAdvance(log[k]) /\ SinceReset(k) = 1

InCS(p) == pc[p] \in {"next_check", "next_store", "next_return", "reset_store"}

Waiting(p) == pc[p] \in {"next_lock", "reset_lock"}

\* ------------------------------------------------------------ claims

\* C1: with jitter disabled, factor >= 1 and no Reset, the k-th Next returns
\* initial * factor^(k-1) as long as that value does not exceed max, and
\* from the first call whose value would exceed max onward every call
\* returns exactly max.
C1_GeometricThenMax ==
  (~withJitter /\ FactorAtLeastOne /\ NoReset) =>
    \A k \in 1..Len(log) :
      IF \E j \in 1..k : IdealExceedsMax(j)
        THEN log[k].val = max
        ELSE IsIdeal(log[k].val, k)

\* C2: with jitter disabled and factor >= 1, for any initial and max, the
\* values returned by successive Next calls with no Reset in between are
\* non-decreasing.
C2_NonDecreasing ==
  (~withJitter /\ FactorAtLeastOne) =>
    \A k \in 1..(Len(log) - 1) :
      (log[k].op = "Next" /\ log[k + 1].op = "Next")
        => log[k + 1].val >= log[k].val

\* C3: with jitter enabled, every value r the n-th call returns satisfies
\* 0 <= r <= U_n, where U_n is what the n-th call returns on an instance
\* with the same arguments and the same Next/Reset sequence but jitter
\* disabled.
C3_JitterBounds ==
  withJitter =>
    \A n \in 1..Len(log) :
      log[n].op = "Next" =>
        (0 <= log[n].val /\ log[n].val <= Unjittered(log, n))

C3_Witness ==
  /\ withJitter
  /\ Len(log) >= 3
  /\ \A n \in 1..3 : log[n].op = "Next"
  /\ log[3].val = Unjittered(log, 3)
  /\ log[3].val > log[2].val
  /\ log[2].val = 0

\* C4: the first Next after construction or after a Reset sets current to
\* initial and returns initial (with jitter, a value of [0, initial])
\* whatever max is, also when initial > max; the call that follows it is
\* bounded by max.
C4_FirstCall ==
  /\ \A p \in Callers :
       (pc[p] = "next_return" /\ local[p].first) => current = initial
  /\ \A k \in 1..Len(log) :
       /\ IsFirstAdvance(k) <=> (IsAdvance(log[k]) /\ log[k].first)
       /\ (IsFirstAdvance(k) /\ log[k].op = "Next") =>
            IF withJitter
              THEN 0 <= log[k].val /\ log[k].val <= initial
              ELSE log[k].val = initial
       /\ (IsFirstAdvance(k) /\ k < Len(log) /\ log[k + 1].op = "Next") =>
            log[k + 1].val <= max

C4_Witness ==
  /\ ~withJitter
  /\ initial > max
  /\ Len(log) = 4
  /\ log[1].op = "Next" /\ log[1].val = initial
  /\ log[2].op = "Reset"
  /\ log[3].op = "Next" /\ log[3].val = initial
  /\ log[4].op = "Next" /\ log[4].val = max

\* C5: with jitter disabled, after any number of Next calls, Reset followed
\* by Next returns exactly initial, and the calls after it repeat the
\* sequence of a freshly constructed instance, every time Reset is used.
C5_ResetRestarts ==
  ~withJitter =>
    \A k \in 1..Len(log) :
      log[k].op = "Next" => log[k].val = FreshValue(SinceReset(k))

C5_Witness ==
  /\ ~withJitter
  /\ Len(log) = 4
  /\ log[1].op = "Next" /\ log[2].op = "Reset"
  /\ log[3].op = "Next" /\ log[4].op = "Next"
  /\ log[3].val = initial
  /\ log[4].val = FreshValue(2)
  /\ log[4].val > initial
  /\ current # initial

\* C6: for every combination of arguments the constructor accepts and every
\* sequence of Next/Reset calls, every duration Next returns is >= 0.
C6_NonNegative ==
  \A k \in 1..Len(log) : log[k].op = "Next" => log[k].val >= 0

\* C7: Next and Reset are total: in every reachable state a call returns
\* normally and never panics; rand.Int63n is never called with an argument
\* <= 0.
C7_NeverPanics ==
  /\ \A k \in 1..Len(log) : log[k].op # "Panic"
  /\ \A p \in Callers :
       (pc[p] = "next_return" /\ withJitter) => ~Int63nPanics(JitterArg(current))

\* C8: with jitter disabled and no Reset, the values returned to concurrent
\* callers are, as a multiset, the first values of the single-caller
\* sequence; exactly one call takes the first-call branch; and for
\* 0 < initial <= max and factor >= 1 every returned value is > 0 and <= max.
C8_ConcurrentCallers ==
  (~withJitter /\ NoReset) =>
    /\ \A v \in Duration :
         Cardinality({k \in 1..Len(log) : log[k].val = v})
           = Cardinality({k \in 1..Len(log) : FreshValue(k) = v})
    /\ Cardinality({k \in 1..Len(log) : log[k].first})
         = (IF Len(log) = 0 THEN 0 ELSE 1)
    /\ (0 < initial /\ initial <= max /\ FactorAtLeastOne) =>
         \A k \in 1..Len(log) : 0 < log[k].val /\ log[k].val <= max

\* C9: mutual exclusion: at most one call is between its Lock and its
\* Unlock, and the mutex is locked exactly while one is.
C9_MutualExclusion ==
  /\ Cardinality({p \in Callers : InCS(p)}) <= 1
  /\ mu <=> (\E p \in Callers : InCS(p))

C9_Witness ==
  \E p, q \in Callers :
    /\ pc[p] = "next_store"
    /\ pc[q] = "reset_lock"
    /\ initialized
    /\ local[p].next # current

\* C10: under fair scheduling every call a caller has started acquires the
\* mutex, completes (by returning or by panicking) and releases the mutex.
C10_EveryCallCompletes ==
  /\ \A p \in Callers : Waiting(p) ~> InCS(p)
  /\ \A p \in Callers : InCS(p) ~> (pc[p] = "idle")
  /\ []((\A p \in Callers : ~InCS(p)) => ~mu)

C10_Witness ==
  \E p, q \in Callers :
    /\ pc[p] = "next_return"
    /\ withJitter /\ Int63nPanics(JitterArg(current))
    /\ Waiting(q)

\* The branch of the last Next that has stored its result: that of the call
\* about to return, or else that of the last advance of the log.
RECURSIVE LastAdvanceFirst(_)
LastAdvanceFirst(k) ==
  IF \E p \in Callers : pc[p] = "next_return"
    THEN \E p \in Callers : pc[p] = "next_return" /\ local[p].first
  ELSE IF k = 0 THEN FALSE
  ELSE IF IsAdvance(log[k]) THEN log[k].first
  ELSE LastAdvanceFirst(k - 1)

\* C11: whenever the instance is started, current <= max, unless the last
\* Next was the first one since construction or Reset and initial > max;
\* every Next that is not a first one returns a value <= max.
C11_ClampInvariant ==
  /\ initialized =>
       \/ current <= max
       \/ (LastAdvanceFirst(Len(log)) /\ current = initial /\ initial > max)
  /\ \A k \in 1..Len(log) :
       (log[k].op = "Next" /\ ~IsFirstAdvance(k)) => log[k].val <= max

C11_Witness ==
  /\ ~withJitter
  /\ initial > max
  /\ Len(log) = 2
  /\ log[1].op = "Next" /\ log[1].val > max
  /\ log[2].op = "Next" /\ log[2].val = max
  /\ \E p \in Callers : pc[p] = "next_store" /\ local[p].next = max
  /\ Product(current, factor) > max

\* C12: with factor = 1.0 and jitter disabled, every Next returns exactly
\* initial, for any number of calls and any initial and max.
C12_NoGrowth ==
  (~withJitter /\ factor = <<1, 1>>) =>
    \A k \in 1..Len(log) : log[k].op = "Next" => log[k].val = initial

\* The state New returned has not been touched: no call has got the mutex.
Untouched ==
  log = <<>> /\ \A p \in Callers : pc[p] \in {"idle", "next_lock", "reset_lock"}

\* C13: New stores initial, factor and max as given, leaves the instance
\* unstarted, and sets withJitter to true unless a WithJitter option is
\* given, whose argument it then takes.
C13_Construction ==
  Untouched =>
    /\ initial = args.initial
    /\ factor = args.factor
    /\ max = args.max
    /\ withJitter = (IF args.opts = <<>> THEN TRUE ELSE args.opts[1])
    /\ ~initialized
    /\ current = 0

C13_Witness ==
  /\ Untouched
  /\ args.opts = <<FALSE>>
  /\ ~withJitter
  /\ initial > max
  /\ factor[1] < 0
  /\ \E p \in Callers : pc[p] = "next_lock"

\* The calls of the README's example and the values its comments give.
ReadmeCalls == <<"Next", "Next", "Next", "Reset", "Next">>

ReadmeValues == <<1, 2, 4, 0, 1>>

\* The calls completed so far are the first calls of the example, made on
\* the example's instance.
ReadmeRun ==
  /\ args.initial = 1 /\ args.factor = <<2, 1>> /\ args.max = 6
  /\ Len(log) <= Len(ReadmeCalls)
  /\ \A k \in 1..Len(log) : log[k].op = ReadmeCalls[k]

C15_ParametersImmutable ==
  [][/\ initial' = initial
     /\ factor' = factor
     /\ max' = max
     /\ withJitter' = withJitter]_vars

C15_Witness ==
  /\ \E j, k \in 1..Len(log) : j < k /\ log[j].op = "Next" /\ log[k].op = "Reset"
  /\ \A p \in Callers : pc[p] = "idle"
  /\ current # 0
  /\ initial = args.initial /\ initial # 0
  /\ factor = args.factor /\ factor # <<0, 1>>
  /\ max = args.max
  /\ withJitter

\* C16: the instance is always either unstarted or started; every Next ends
\* with it started (also one that panics) and every Reset with it
\* unstarted, whatever it was before; no state is terminal: an idle caller
\* can start either call, the mutex is free whenever no call is inside, and
\* a call inside can always store, return and release the mutex (the test
\* of b.initialized and the multiplication before the stores have no
\* condition).
C16_TwoStates ==
  /\ initialized \in BOOLEAN
  /\ (log # <<>> /\ IsAdvance(log[Len(log)])) => initialized
  /\ (log # <<>> /\ log[Len(log)].op = "Reset") =>
       (initialized <=> \E p \in Callers : pc[p] = "next_return")
  /\ \A p \in Callers :
       /\ (pc[p] = "idle" /\ Started < budget) =>
            (ENABLED CallNext(p) /\ ENABLED CallReset(p))
       /\ pc[p] = "next_lock" =>
            ((\A q \in Callers : ~InCS(q)) => ENABLED NextLock(p))
       /\ pc[p] = "reset_lock" =>
            ((\A q \in Callers : ~InCS(q)) => ENABLED ResetLock(p))
       /\ pc[p] \in {"next_check", "next_store"} => mu
       /\ pc[p] = "next_store" => ENABLED NextStore(p)
       /\ pc[p] = "next_return" => ENABLED (NextReturn(p) \/ NextPanic(p))
       /\ pc[p] = "reset_store" => ENABLED ResetStore(p)

C16_Witness ==
  /\ Len(log) = 4
  /\ log[1].op = "Next" /\ log[2].op = "Reset"
  /\ log[3].op = "Reset" /\ log[4].op = "Next"
  /\ initialized
  /\ ~mu
  /\ \A p \in Callers : pc[p] = "idle"

\* C17: on every Next of a started instance the new current is max if
\* trunc(current * factor) > max and trunc(current * factor) otherwise,
\* trunc dropping the fraction of the real product of the stored current.
C17_GrowthStep ==
  \A p \in Callers :
    (pc[p] = "next_store" /\ ~local[p].first) =>
      local[p].next =
        (LET t == Trunc(current * factor[1], factor[2])
         IN  IF t > max THEN max ELSE t)

\* The last completed call is a Reset and no Next has stored since.
AfterReset ==
  /\ log # <<>>
  /\ log[Len(log)].op = "Reset"
  /\ \A p \in Callers : pc[p] # "next_return"

C19_OverflowSaturates ==
  \A p \in Callers :
    (/\ pc[p] = "next_store"
     /\ ~local[p].first
     /\ Product(current, factor) \notin Duration
     /\ max >= 0) =>
      local[p].next = max

\* C20: with initial = 0 every Next returns 0, for any factor and any max,
\* with jitter enabled or disabled.
C20_ZeroInitial ==
  initial = 0 =>
    \A k \in 1..Len(log) :
      /\ log[k].op # "Panic"
      /\ log[k].op = "Next" => log[k].val = 0

\* The calls whose stores are done: the completed ones, and the Next that
\* has stored and not yet returned.
Stored ==
  IF \E p \in Callers : pc[p] = "next_return"
    THEN Append(log, [op |-> "Next", val |-> 0, first |-> FALSE])
    ELSE log

\* C21: with jitter enabled, after the stores of every call, initialized and
\* current are those of the jitter-disabled instance with the same
\* parameters after the same calls; the draw is returned and never stored.
C21_JitterNotStored ==
  withJitter =>
    /\ current = Replay(Stored).current
    /\ initialized = Replay(Stored).initialized

C21_Witness ==
  /\ withJitter
  /\ Len(log) = 3
  /\ \A k \in 1..3 : log[k].op = "Next" /\ log[k].val = 0
  /\ current = 4
  /\ Replay(log).current = 4
  /\ \A p \in Callers : pc[p] = "idle"

\* C22: with jitter enabled and current >= 0, the values Next can return
\* are exactly the integers of [0, current]: each of them, 0 and current
\* included, is a possible result, and nothing else is.
C22_JitterRangeExact ==
  \A p \in Callers :
    (pc[p] = "next_return" /\ withJitter /\ current >= 0) =>
      /\ \A r \in 0..current :
           ENABLED (NextReturn(p) /\ log'[Len(log')].val = r)
      /\ ~ENABLED (NextReturn(p) /\ log'[Len(log')].val \notin 0..current)
      /\ ~ENABLED NextPanic(p)

\* The fields of an instance constructed as b was, after the calls of l made
\* one after another, whatever their draws.
RECURSIVE ReplayOn(_, _, _)
ReplayOn(b, cv, l) ==
  IF l = <<>> THEN [b EXCEPT !.current = 0, !.initialized = FALSE]
  ELSE LET g == ReplayOn(b, cv, SubSeq(l, 1, Len(l) - 1))
       IN  IF l[Len(l)].op = "Reset" THEN ResetStores(g)
           ELSE NextStores(g, NextLocals(g, cv))

\* What the first instance consists of, with its callers, and the steps that
\* belong to calls on the first and on the second instance.
first == <<initial, factor, max, withJitter, current, initialized, mu, pc,
           local, log>>

FirstSteps == first' # first

OtherSteps == other' # other

\* The step is the return of a jittered Next, on either instance.
JitteredReturn ==
  \/ /\ withJitter
     /\ Len(log') = Len(log) + 1
     /\ log'[Len(log')].op = "Next"
  \/ /\ other.b.withJitter
     /\ Len(other'.log) = Len(other.log) + 1
     /\ other'.log[Len(other'.log)].op = "Next"

\* Every value the second instance has returned is the one its own
\* parameters and its own calls give (jitter disabled), or lies in the range
\* they give (jitter enabled).
OwnValues ==
  \A k \in 1..Len(other.log) :
    other.log[k].op = "Next" =>
      LET c == ReplayOn(other.b, conv, SubSeq(other.log, 1, k)).current
      IN  IF other.b.withJitter
            THEN other.log[k].val \in 0..c
            ELSE other.log[k].val = c

C24_Linearizable ==
  ~withJitter =>
    /\ \A k \in 1..Len(log) :
         log[k].op = "Next" =>
           /\ log[k].val = Unjittered(log, k)
           /\ (k > 1 /\ log[k - 1].op = "Reset") =>
                (log[k].first /\ log[k].val = initial)
    /\ \A p \in Callers :
         pc[p] = "next_return" =>
           /\ current = Replay(Stored).current
           /\ (log # <<>> /\ log[Len(log)].op = "Reset") => current = initial

C24_Witness ==
  /\ ~withJitter
  /\ Len(log) = 3
  /\ log[1].op = "Next" /\ log[2].op = "Next" /\ log[2].val > log[1].val
  /\ log[3].op = "Reset"
  /\ \E p \in Callers :
       pc[p] = "next_return" /\ local[p].first /\ current = initial
  /\ \E p \in Callers : pc[p] = "idle"

\* C25: with jitter disabled, factor > 1 and 0 < initial <= max, repeated
\* calls of Next with no Reset eventually return max and return max from
\* then on.  The value of a Next depends on the previous one alone, so the
\* values reach max exactly if every value below max is followed by a
\* greater one, and they stay there if max is followed by max.
C25_EventuallyMax ==
  (~withJitter /\ NoReset /\ factor[1] > factor[2]
     /\ 0 < initial /\ initial <= max) =>
    \A k \in 1..(Len(log) - 1) :
      /\ log[k].val < max => log[k + 1].val > log[k].val
      /\ log[k].val = max => log[k + 1].val = max

\* C26: with jitter disabled, 0 <= factor < 1 and initial >= 0, the values
\* successive calls of Next return with no Reset are non-increasing and
\* never negative, and they eventually become 0 and stay 0: every value
\* above 0 is followed by a smaller one and 0 is followed by 0.
C26_Shrinking ==
  (~withJitter /\ NoReset /\ 0 <= factor[1] /\ factor[1] < factor[2]
     /\ initial >= 0) =>
    /\ \A k \in 1..Len(log) : log[k].val >= 0
    /\ \A k \in 1..(Len(log) - 1) :
         /\ log[k + 1].val <= log[k].val
         /\ log[k].val > 0 => log[k + 1].val < log[k].val
         /\ log[k].val = 0 => log[k + 1].val = 0

====
